---- MODULE Spec2Model ----
(***************************************************************************)
(* Attestation relay of sunchaoqun/go_attestation_doc.                     *)
(*                                                                         *)
(* Two revisions of the enclave server are modelled: the one with the      *)
(* use_cli / DirectDevice strategies (src/enclave/main.go, "legacy") and   *)
(* the one that always runs `nsm-cli attest` (src/unnamed/part_001,        *)
(* "extended").  Go strings and byte slices are sequences of byte values;  *)
(* error values are sequences of message parts, so that fmt.Errorf and     *)
(* fmt.Sprintf are concatenations.                                         *)
(***************************************************************************)
EXTENDS Integers, Sequences, FiniteSets, TLC

(***************************************************************************)
(* Bounds of the model.                                                    *)
(***************************************************************************)
\* number of connections the listener accepts in one run
NumConns == 2
\* longest document a device frame declares inside its capacity
MaxDocLen == 2
\* longest of the short nonces (the 64 and 65 byte nonces are always there)
MaxNonceLen == 1
\* failures of listener.Accept() in one run
MaxAcceptFails == 1

(***************************************************************************)
(* Program constants.                                                      *)
(***************************************************************************)
nsmCmdGetAttestationDoc == 32
maxMessageSize == 16384
\* len(attestationDocRequest.Nonce)
NonceSize == 64
\* width of a uint32 on the wire
U32Size == 4
\* make([]byte, 4096) of handleClient
ReadBufSize == 4096

(***************************************************************************)
(* Byte strings.                                                           *)
(***************************************************************************)
Min(a, b) == IF a < b THEN a ELSE b

\* s[n:]
Drop(s, n) == SubSeq(s, n + 1, Len(s))

\* a sequence of n copies of b
Rep(b, n) == [i \in 1..n |-> b]

\* binary.LittleEndian.PutUint32
LE32(v) ==
    << v % 256, (v \div 256) % 256, (v \div 65536) % 256, (v \div 16777216) % 256 >>

\* the opposite byte order: what binary.BigEndian would write
BE32(v) ==
    << (v \div 16777216) % 256, (v \div 65536) % 256, (v \div 256) % 256, v % 256 >>

\* binary.LittleEndian.Uint32
LE32Dec(b) == b[1] + 256 * b[2] + 65536 * b[3] + 16777216 * b[4]

(***************************************************************************)
(* encoding/base64, StdEncoding: the alphabet A-Z a-z 0-9 + / and the      *)
(* padding character '='.                                                  *)
(***************************************************************************)
PadChar == 61

B64Char(i) ==
    IF i < 26 THEN 65 + i
    ELSE IF i < 52 THEN 97 + (i - 26)
    ELSE IF i < 62 THEN 48 + (i - 52)
    ELSE IF i = 62 THEN 43 ELSE 47

\* the sextet of a character of the alphabet, -1 for any other character
B64Val(c) ==
    IF c >= 65 /\ c <= 90 THEN c - 65
    ELSE IF c >= 97 /\ c <= 122 THEN c - 97 + 26
    ELSE IF c >= 48 /\ c <= 57 THEN c - 48 + 52
    ELSE IF c = 43 THEN 62
    ELSE IF c = 47 THEN 63 ELSE 0 - 1

RECURSIVE EncodeToString(_)
EncodeToString(src) ==
    IF Len(src) = 0 THEN << >>
    ELSE IF Len(src) = 1 THEN
        LET v == src[1] * 65536
        IN  << B64Char(v \div 262144), B64Char((v \div 4096) % 64), PadChar, PadChar >>
    ELSE IF Len(src) = 2 THEN
        LET v == src[1] * 65536 + src[2] * 256
        IN  << B64Char(v \div 262144), B64Char((v \div 4096) % 64),
               B64Char((v \div 64) % 64), PadChar >>
    ELSE
        LET v == src[1] * 65536 + src[2] * 256 + src[3]
        IN  << B64Char(v \div 262144), B64Char((v \div 4096) % 64),
               B64Char((v \div 64) % 64), B64Char(v % 64) >>
            \o EncodeToString(Drop(src, 3))

\* DecodeString: [ok, bytes].  Every quantum is four characters; padding is
\* accepted in the last quantum only ("xx==" or "xxx="); any other character
\* outside the alphabet is a CorruptInputError.
RECURSIVE DecodeString(_)
DecodeString(s) ==
    IF Len(s) = 0 THEN [ok |-> TRUE, bytes |-> << >>]
    ELSE IF Len(s) < 4 THEN [ok |-> FALSE, bytes |-> << >>]
    ELSE
        LET a == B64Val(s[1])
            b == B64Val(s[2])
            c == B64Val(s[3])
            d == B64Val(s[4])
            last == Len(s) = 4
            bad == [ok |-> FALSE, bytes |-> << >>]
        IN  IF a < 0 \/ b < 0 THEN bad
            ELSE IF s[3] = PadChar THEN
                IF last /\ s[4] = PadChar
                THEN [ok |-> TRUE, bytes |-> << (a * 4 + b \div 16) % 256 >>]
                ELSE bad
            ELSE IF c < 0 THEN bad
            ELSE IF s[4] = PadChar THEN
                IF last
                THEN [ok |-> TRUE,
                      bytes |-> << (a * 4 + b \div 16) % 256,
                                   ((b % 16) * 16 + c \div 4) % 256 >>]
                ELSE bad
            ELSE IF d < 0 THEN bad
            ELSE
                LET rest == DecodeString(Drop(s, 4))
                IN  IF rest.ok
                    THEN [ok |-> TRUE,
                          bytes |-> << (a * 4 + b \div 16) % 256,
                                       ((b % 16) * 16 + c \div 4) % 256,
                                       ((c % 4) * 64 + d) % 256 >> \o rest.bytes]
                    ELSE bad

(***************************************************************************)
(* encoding/json as the handlers and the acquirer use it.  A JSON text is  *)
(* kept as what it denotes: "garbage" is any text that is not JSON, an     *)
(* "object" carries its members, and every member is absent, a boolean or  *)
(* a string.  `size` is the length of the text in bytes.                   *)
(***************************************************************************)
Absent == [t |-> "absent", b |-> FALSE, s |-> << >>]
JBool(x) == [t |-> "bool", b |-> x, s |-> << >>]
JStr(x) == [t |-> "str", b |-> FALSE, s |-> x]

NoMembers ==
    [use_cli |-> Absent, nonce |-> Absent, output_file |-> Absent, parse |-> Absent,
     user_data |-> Absent, public_key |-> Absent]

\* the zero value of CommandArgs (the fields of both revisions)
ZeroArgs ==
    [UseCLI |-> FALSE, Nonce |-> << >>, OutputFile |-> << >>, Parse |-> FALSE,
     UserData |-> << >>, PublicKey |-> << >>]

\* the first n bytes of a text are JSON only when they are the whole of a JSON text
ValidJSON(text, n) == text.j = "object" /\ n = text.size

\* a JSON member stored into a Go bool / string field
BoolField(v) == [ok |-> v.t \in {"absent", "bool"}, val |-> v.b]
StrField(v) == [ok |-> v.t \in {"absent", "str"}, val |-> v.s]

\* json.Unmarshal(buffer[:n], &args), CommandArgs of src/enclave/main.go
UnmarshalLegacy(text, n) ==
    IF ~ValidJSON(text, n) THEN [err |-> << "invalid JSON" >>, args |-> ZeroArgs]
    ELSE
        LET u == BoolField(text.o.use_cli)
            no == StrField(text.o.nonce)
            f == StrField(text.o.output_file)
            p == BoolField(text.o.parse)
        IN  IF u.ok /\ no.ok /\ f.ok /\ p.ok
            THEN [err |-> << >>,
                  args |-> [ZeroArgs EXCEPT !.UseCLI = u.val, !.Nonce = no.val,
                                            !.OutputFile = f.val, !.Parse = p.val]]
            ELSE [err |-> << "cannot unmarshal into Go struct field" >>,
                  args |-> ZeroArgs]

\* json.Unmarshal(buffer[:n], &args), CommandArgs of src/unnamed/part_001
UnmarshalExtended(text, n) ==
    IF ~ValidJSON(text, n) THEN [err |-> << "invalid JSON" >>, args |-> ZeroArgs]
    ELSE
        LET d == StrField(text.o.user_data)
            k == StrField(text.o.public_key)
            no == StrField(text.o.nonce)
        IN  IF d.ok /\ k.ok /\ no.ok
            THEN [err |-> << >>,
                  args |-> [ZeroArgs EXCEPT !.UserData = d.val, !.PublicKey = k.val,
                                            !.Nonce = no.val]]
            ELSE [err |-> << "cannot unmarshal into Go struct field" >>,
                  args |-> ZeroArgs]

(***************************************************************************)
(* The wire response.  json.Marshal drops a member tagged omitempty when   *)
(* its value is empty: `members` is the set of members the text carries.   *)
(***************************************************************************)
\* a map[string]interface{}: nil, or the set of its keys
NilMap == [nil |-> TRUE, keys |-> {}]

Response(success, errorMessage, document, parsedDoc) ==
    [Success |-> success, ErrorMessage |-> errorMessage, Document |-> document,
     ParsedDoc |-> parsedDoc]

Marshal(r) ==
    [success |-> r.Success,
     members |-> {"success"}
                 \cup (IF r.ErrorMessage # << >> THEN {"error_message"} ELSE {})
                 \cup (IF r.Document # << >> THEN {"document"} ELSE {})
                 \cup (IF r.ParsedDoc.keys # {} THEN {"parsed_doc"} ELSE {}),
     error_message |-> r.ErrorMessage,
     document |-> r.Document,
     parsed_doc |-> r.ParsedDoc]

(***************************************************************************)
(* The NSM device protocol of getSignedAttestationDocDirect.               *)
(***************************************************************************)
\* unsafe.Sizeof(attestationDocRequest{}): Version uint32 + Nonce [64]byte
SizeofRequest == U32Size + NonceSize

\* binary.Size(nsmResponseHeader{}): MessageType, MessageLen
RespHeaderSize == 2 * U32Size

\* binary.Size(attestationDocResponse{}): Version, Status, DocumentLen, DocumentData
RespBodySize == 3 * U32Size + maxMessageSize

\* the copy that leaves the array zeroed when the nonce does not fit
NonceFieldStrict(nonceStr) ==
    [i \in 1..NonceSize |->
        IF Len(nonceStr) <= NonceSize /\ i <= Len(nonceStr) THEN nonceStr[i] ELSE 0]

\* copy(request.Nonce[:], []byte(nonceStr)) into the zeroed array
NonceField(nonceStr) ==
    [i \in 1..NonceSize |-> IF i <= Len(nonceStr) THEN nonceStr[i] ELSE 0]

\* the frame with its integers most significant byte first
RequestFrameBigEndian(nonceStr) ==
    BE32(nsmCmdGetAttestationDoc) \o BE32(SizeofRequest) \o BE32(1) \o NonceField(nonceStr)

\* reqBuf.Bytes(): binary.Write of the header, then of the request
RequestFrame(nonceStr) ==
    LE32(nsmCmdGetAttestationDoc) \o LE32(SizeofRequest) \o LE32(1) \o NonceField(nonceStr)

(***************************************************************************)
(* What the device does on one call: whether the open and the write        *)
(* succeed, how many bytes it delivers before end of file, the five uint32 *)
(* fields that open the response (head, 20 bytes) and DocumentData, given  *)
(* as the bytes it starts with (data) and the byte that fills the rest of  *)
(* the 16384 (fill).                                                       *)
(***************************************************************************)
DataAt(d, i) == IF i <= Len(d.data) THEN d.data[i] ELSE d.fill

\* the result of an acquisition: the document or the error, whether the call
\* panicked, and what it did to the device and to the helper
AcqResult(doc, err, panic, wrote, opened, ran) ==
    [doc |-> doc, err |-> err, panic |-> panic, wrote |-> wrote, opened |-> opened,
     ran |-> ran]

\* the decoding with the status tested after the slice is taken
DecodeStatusLate(d, wrote) ==
    LET status == LE32Dec(SubSeq(d.head, 13, 16))
        documentLen == LE32Dec(SubSeq(d.head, 17, 20))
    IN  IF documentLen > maxMessageSize
        THEN AcqResult(<< >>, << >>, TRUE, wrote, TRUE, FALSE)
        ELSE IF status # 0
        THEN AcqResult(<< >>, << "NSM returned error status", ToString(status) >>,
                       FALSE, wrote, TRUE, FALSE)
        ELSE AcqResult(EncodeToString([i \in 1..documentLen |-> DataAt(d, i)]),
                       << >>, FALSE, wrote, TRUE, FALSE)

\* the decoding with a slice one byte too long
DecodeOneMore(d, wrote) ==
    LET status == LE32Dec(SubSeq(d.head, 13, 16))
        documentLen == LE32Dec(SubSeq(d.head, 17, 20))
    IN  IF status # 0
        THEN AcqResult(<< >>, << "NSM returned error status", ToString(status) >>,
                       FALSE, wrote, TRUE, FALSE)
        ELSE IF documentLen + 1 > maxMessageSize
        THEN AcqResult(<< >>, << >>, TRUE, wrote, TRUE, FALSE)
        ELSE AcqResult(EncodeToString([i \in 1..(documentLen + 1) |-> DataAt(d, i)]),
                       << >>, FALSE, wrote, TRUE, FALSE)

\* the end of getSignedAttestationDocDirect, once the response body was read: the
\* test of Status, DocumentData[:DocumentLen] and its base64 encoding.  The slice
\* expression panics when DocumentLen exceeds the length of the array.
DecodeFrame(d, wrote) ==
    LET status == LE32Dec(SubSeq(d.head, 13, 16))
        documentLen == LE32Dec(SubSeq(d.head, 17, 20))
    IN  IF status # 0
        THEN AcqResult(<< >>, << "NSM returned error status", ToString(status) >>,
                       FALSE, wrote, TRUE, FALSE)
        ELSE IF documentLen > maxMessageSize
        THEN AcqResult(<< >>, << >>, TRUE, wrote, TRUE, FALSE)
        ELSE AcqResult(EncodeToString([i \in 1..documentLen |-> DataAt(d, i)]),
                       << >>, FALSE, wrote, TRUE, FALSE)

getSignedAttestationDocDirect(nonceStr, d) ==
    IF ~d.open
    THEN AcqResult(<< >>, << "cannot open NSM device" >>, FALSE, << >>, FALSE, FALSE)
    ELSE IF ~d.write
    THEN AcqResult(<< >>, << "send request failed" >>, FALSE, << >>, TRUE, FALSE)
    ELSE IF d.avail < RespHeaderSize
    THEN AcqResult(<< >>, << "read response header failed" >>, FALSE,
                   RequestFrame(nonceStr), TRUE, FALSE)
    ELSE IF d.avail < RespHeaderSize + RespBodySize
    THEN AcqResult(<< >>, << "read response body failed" >>, FALSE,
                   RequestFrame(nonceStr), TRUE, FALSE)
    ELSE DecodeFrame(d, RequestFrame(nonceStr))

(***************************************************************************)
(* The helper nsm-cli on one call: whether exec.LookPath finds it, whether *)
(* it runs and exits with status 0, and its output: the text (raw) and     *)
(* what the text denotes as JSON (j, doc: the member attestation_doc).     *)
(***************************************************************************)
\* json.Unmarshal(output, &result), result.AttestationDoc
UnmarshalHelper(out) ==
    IF out.j # "object" THEN [err |-> << "invalid JSON" >>, doc |-> << >>]
    ELSE IF ~StrField(out.doc).ok
    THEN [err |-> << "cannot unmarshal into Go struct field" >>, doc |-> << >>]
    ELSE [err |-> << >>, doc |-> StrField(out.doc).val]

\* the acquirer that reports a missing helper instead of turning to the device
WithCLINoFallback(nonce, h, d) ==
    IF ~h.found
    THEN AcqResult(<< >>, << "nsm-cli not found" >>, FALSE, << >>, FALSE, FALSE)
    ELSE IF ~h.exit0
    THEN AcqResult(<< >>, << "nsm-cli failed", "exit status 1" >>, FALSE, << >>, FALSE, TRUE)
    ELSE
        LET result == UnmarshalHelper(h.out)
        IN  IF result.err # << >>
            THEN AcqResult(<< >>, << "parse nsm-cli output failed" >> \o result.err,
                           FALSE, << >>, FALSE, TRUE)
            ELSE AcqResult(result.doc, << >>, FALSE, << >>, FALSE, TRUE)

\* the acquirer that returns the output of the helper as the document
WithCLIRawOutput(nonce, h, d) ==
    IF ~h.found THEN getSignedAttestationDocDirect(nonce, d)
    ELSE IF ~h.exit0
    THEN AcqResult(<< >>, << "nsm-cli failed", "exit status 1" >>, FALSE, << >>, FALSE, TRUE)
    ELSE AcqResult(h.out.raw, << >>, FALSE, << >>, FALSE, TRUE)

\* getSignedAttestationDocWithCLI: exec.LookPath, cmd.Output, json.Unmarshal
getSignedAttestationDocWithCLI(nonce, h, d) ==
    IF ~h.found THEN getSignedAttestationDocDirect(nonce, d)
    ELSE IF ~h.exit0
    THEN AcqResult(<< >>, << "nsm-cli failed", "exit status 1" >>, FALSE, << >>, FALSE, TRUE)
    ELSE
        LET result == UnmarshalHelper(h.out)
        IN  IF result.err # << >>
            THEN AcqResult(<< >>, << "parse nsm-cli output failed" >> \o result.err,
                           FALSE, << >>, FALSE, TRUE)
            ELSE AcqResult(result.doc, << >>, FALSE, << >>, FALSE, TRUE)

(***************************************************************************)
(* parseAttestationDoc's json.Unmarshal(docBytes, &result) into a          *)
(* map[string]interface{}, on the documents of the model: the texts `{}`,  *)
(* `{"a":1}` and `null` are JSON (null leaves the nil map), every other    *)
(* document of the model is not.                                           *)
(***************************************************************************)
TextEmptyObject == << 123, 125 >>
TextObjectA == << 123, 34, 97, 34, 58, 49, 125 >>
TextNull == << 110, 117, 108, 108 >>

UnmarshalMap(docBytes) ==
    IF docBytes = TextEmptyObject THEN [err |-> << >>, map |-> [nil |-> FALSE, keys |-> {}]]
    ELSE IF docBytes = TextObjectA
    THEN [err |-> << >>, map |-> [nil |-> FALSE, keys |-> {"a"}]]
    ELSE IF docBytes = TextNull THEN [err |-> << >>, map |-> NilMap]
    ELSE [err |-> << "invalid JSON" >>, map |-> NilMap]

parseAttestationDoc(document) ==
    LET dec == DecodeString(document)
    IN  IF ~dec.ok
        THEN [err |-> << "decode attestation document failed" >>, map |-> NilMap]
        ELSE LET u == UnmarshalMap(dec.bytes)
             IN  IF u.err # << >>
                 THEN [err |-> << "parse attestation document failed" >> \o u.err,
                       map |-> NilMap]
                 ELSE u

(***************************************************************************)
(* The inputs.  A run is either one connection over the whole input space  *)
(* (scope "one") or NumConns connections over one input of each class      *)
(* (scope "many").                                                         *)
(***************************************************************************)
StrN == << 110 >>
StrO == << 111 >>
StrU == << 117 >>

\* base64 of the bytes "hi", and a string that is not base64
DocHi == EncodeToString(<< 104, 105 >>)
NotBase64 == << 33, 33 >>

Nonces(sc) ==
    IF sc = "many" THEN {StrN}
    ELSE {Rep(97, n) : n \in 0..MaxNonceLen} \cup {Rep(98, NonceSize), Rep(98, NonceSize + 1),
                                                   Rep(98, NonceSize) \o << 99 >>}

\* the length of a request text that fits the read buffer, and of one that does not
SmallText == ReadBufSize \div 64
BigText == ReadBufSize + 1

Object(o, size) == [j |-> "object", o |-> o, size |-> size]
Garbage == [j |-> "garbage", o |-> NoMembers, size |-> SmallText]

LegacyObjects(sc) ==
    { [NoMembers EXCEPT !.use_cli = JBool(u), !.nonce = JStr(n),
                        !.output_file = JStr(f), !.parse = JBool(p)] :
        u \in BOOLEAN, n \in Nonces(sc),
        f \in (IF sc = "many" THEN {StrO} ELSE {<< >>, StrO}),
        p \in (IF sc = "many" THEN {TRUE} ELSE BOOLEAN) }

ExtendedObjects(sc) ==
    { [NoMembers EXCEPT !.user_data = JStr(d), !.public_key = JStr(k), !.nonce = JStr(n)] :
        d \in (IF sc = "many" THEN {StrU} ELSE {<< >>, StrU}),
        k \in (IF sc = "many" THEN {DocHi} ELSE {<< >>, DocHi, NotBase64}),
        n \in (IF sc = "many" THEN {StrN} ELSE {<< >>, StrN}) }

\* what a client may have written to the connection
Requests(server, sc) ==
    LET objects == IF server = "legacy" THEN LegacyObjects(sc) ELSE ExtendedObjects(sc)
        one == CHOOSE o \in objects : TRUE
    IN  {Object(o, SmallText) : o \in objects}
        \cup (IF sc = "many" THEN {}
              ELSE {Garbage, Object(one, BigText),
                    Object([NoMembers EXCEPT !.nonce = JBool(TRUE)], SmallText),
                    Object(NoMembers, SmallText)})

\* a response frame delivered in full
Frame(status, documentLen, data, fill) ==
    [open |-> TRUE, write |-> TRUE, avail |-> RespHeaderSize + RespBodySize,
     head |-> LE32(nsmCmdGetAttestationDoc) \o LE32(RespBodySize) \o LE32(1)
              \o LE32(status) \o LE32(documentLen),
     data |-> data, fill |-> fill]

NoFrame == Frame(0, 0, << >>, 0)

DevData(sc) ==
    IF sc = "many" THEN {TextEmptyObject}
    ELSE {TextEmptyObject, << 104, 105 >>, << 255 >>}

DevBehaviours(sc) ==
    {Frame(0, n, d, 255) : n \in {MaxDocLen, maxMessageSize + 1}, d \in DevData(sc)}
    \cup (IF sc = "many" THEN {}
          ELSE {[NoFrame EXCEPT !.open = FALSE],
                [NoFrame EXCEPT !.write = FALSE], [NoFrame EXCEPT !.avail = 0],
                [NoFrame EXCEPT !.avail = RespHeaderSize]}
               \cup {Frame(3, 1, d, 255) : d \in DevData(sc)}
               \cup {Frame(0, n, d, f) : n \in 0..MaxDocLen, d \in DevData(sc), f \in {0, 255}}
               \cup {Frame(st, n, << 104, 105 >>, 0) :
                        st \in {1, 256}, n \in {0, maxMessageSize + 1}})

\* the text {"attestation_doc":"<doc>"}
HelperJSON(doc) ==
    [raw |-> << 123, 34, 97, 116, 116, 101, 115, 116, 97, 116, 105, 111, 110, 95, 100,
                111, 99, 34, 58, 34 >> \o doc \o << 34, 125 >>,
     j |-> "object", doc |-> JStr(doc)]

HelperOutputs(sc) ==
    {HelperJSON(DocHi)}
    \cup (IF sc = "many" THEN {}
          ELSE {HelperJSON(EncodeToString(TextObjectA)), HelperJSON(NotBase64),
                [raw |-> TextEmptyObject, j |-> "object", doc |-> Absent],
                [raw |-> << >>, j |-> "garbage", doc |-> Absent],
                [raw |-> DocHi, j |-> "garbage", doc |-> Absent],
                [raw |-> << 123, 34, 97, 116, 116, 101, 115, 116, 97, 116, 105, 111, 110,
                            95, 100, 111, 99, 34, 58, 116, 114, 117, 101, 125 >>,
                 j |-> "object", doc |-> JBool(TRUE)]})

HelperBehaviours(sc) ==
    LET any == CHOOSE o \in HelperOutputs(sc) : TRUE
    IN  {[found |-> FALSE, exit0 |-> FALSE, out |-> any]}
        \cup {[found |-> TRUE, exit0 |-> TRUE, out |-> o] : o \in HelperOutputs(sc)}
        \cup (IF sc = "many" THEN {} ELSE {[found |-> TRUE, exit0 |-> FALSE, out |-> any]})

(***************************************************************************)
(* The state of the server process.                                        *)
(***************************************************************************)
VARIABLES
    scope,      \* "one" or "many": the inputs of this run (see above)
    srv,        \* the revision that runs: "legacy" or "extended"
    alive,      \* the process runs: no panic and no log.Fatalf has ended it
    listener,   \* startVsockServer: st, where it stands, and fails, the calls of
                \*          listener.Accept() that returned an error
    spawned,    \* spawned[c]: n, the goroutines handleClient(c) started, and late,
                \*          whether an accept had failed before c was accepted
    pc,         \* pc[c]: where the goroutine handleClient(c) stands
    buf,        \* buf[c]: the text the peer sent and n, the bytes conn.Read returned
    args,       \* args[c]: the CommandArgs of the handler
    env,        \* env[c]: what the helper and the device do on this handler's call
    acq,        \* acq[c]: document, err the acquirer returned, and what the call did
    sent,       \* sent[c]: the conn.Write calls of the handler: the text and whether
                \*          the write succeeded
    closed,     \* closed[c]: conn.Close() has run
    calls,      \* calls[c]: how many times the handler called the acquirer
    fd,         \* fd[c]: the handler holds an open descriptor of the NSM device
    io,         \* io[c]: the calls of nsmDevice.Write and of binary.Read on the
                \*          device that the handler has made
    saved,      \* saved[c]: saveAttestationDoc was called, and the error it returned
    files,      \* the output files on the enclave's file system
    tmp,        \* tmp[c]: the temporary public key file of the handler
    cli         \* the client process on the host that dialled connection ClientConn

vars ==
    << scope, srv, alive, listener, spawned, pc, buf, args, env, acq, sent, closed, calls,
       fd, io, saved, files, tmp, cli >>

Conns == 1..NumConns

\* the connection of the client process of the model
ClientConn == 1

\* the connections of this run
Active(c) == c <= (IF scope = "one" THEN 1 ELSE NumConns)

\* the names os.CreateTemp("", "pubkey-*.der") can draw
TmpNames == 1..NumConns

Paths == {StrO}
NoFile == [exists |-> FALSE, bytes |-> << >>]
NoBuf == [text |-> Garbage, n |-> 0]
NoTmp == [st |-> "none", bytes |-> << >>, fd |-> FALSE, name |-> 0]
NoHelper == [found |-> FALSE, exit0 |-> FALSE, out |-> [raw |-> << >>, j |-> "garbage", doc |-> Absent]]
NoEnv == [h |-> NoHelper, d |-> NoFrame]
NoAcq == AcqResult(<< >>, << >>, FALSE, << >>, FALSE, FALSE)
NoSave == [called |-> FALSE, err |-> << >>]
NoIO == [writes |-> 0, reads |-> 0]
NoClient ==
    [pc |-> "wait", rcv |-> "none", exit |-> 0, log |-> << >>, stdout |-> << >>,
     output |-> << >>, file |-> NoFile]

Init ==
    /\ scope \in {"one", "many"}
    /\ srv \in {"legacy", "extended"}
    /\ alive = TRUE
    /\ listener = [st |-> "start", fails |-> 0]
    /\ spawned = [c \in Conns |-> [n |-> 0, late |-> FALSE]]
    /\ pc = [c \in Conns |-> "new"]
    /\ buf = [c \in Conns |-> NoBuf]
    /\ args = [c \in Conns |-> ZeroArgs]
    /\ env = [c \in Conns |-> NoEnv]
    /\ acq = [c \in Conns |-> NoAcq]
    /\ sent = [c \in Conns |-> << >>]
    /\ closed = [c \in Conns |-> FALSE]
    /\ calls = [c \in Conns |-> 0]
    /\ fd = [c \in Conns |-> FALSE]
    /\ io = [c \in Conns |-> NoIO]
    /\ saved = [c \in Conns |-> NoSave]
    /\ files = [p \in Paths |-> NoFile]
    /\ tmp = [c \in Conns |-> NoTmp]
    /\ cli = NoClient

\* the text sendErrorResponse writes
sendErrorResponse(errorMessage) == Marshal(Response(FALSE, errorMessage, << >>, NilMap))

\* conn.Write(text): the call is made once and succeeds or fails
Write(c, text) ==
    \E ok \in (IF scope = "many" THEN {TRUE} ELSE BOOLEAN) : sent' = [sent EXCEPT ![c] = Append(@, [text |-> text, ok |-> ok])]

\* the return that leaves the temporary file behind
ReturnKeepsFile(c) ==
    /\ pc' = [pc EXCEPT ![c] = "done"]
    /\ closed' = [closed EXCEPT ![c] = TRUE]
    /\ UNCHANGED tmp

\* the deferred calls of handleClient, run when it returns: os.Remove of the
\* temporary file when one was created, then conn.Close()
Return(c) ==
    /\ pc' = [pc EXCEPT ![c] = "done"]
    /\ closed' = [closed EXCEPT ![c] = TRUE]
    /\ tmp' = [k \in Conns |->
                  IF tmp[k].st \in {"created", "written"} /\ tmp[c].st # "none"
                     /\ tmp[k].name = tmp[c].name
                  THEN [tmp[k] EXCEPT !.st = "removed"] ELSE tmp[k]]

\* sendErrorResponse(conn, msg); return
Fail(c, msg) == Write(c, sendErrorResponse(msg)) /\ Return(c)

\* an unrecovered panic in the goroutine of c: its deferred calls run, then the
\* runtime terminates the process, which closes every descriptor
Crash(c) ==
    /\ alive' = FALSE
    /\ pc' = [pc EXCEPT ![c] = "panicked"]
    /\ closed' = [k \in Conns |-> pc[k] # "new"]
    /\ fd' = [k \in Conns |-> FALSE]
    /\ tmp' = [tmp EXCEPT ![c] = IF @.st = "none" THEN @ ELSE [@ EXCEPT !.st = "removed"]]
    /\ UNCHANGED sent

\* listener, err := vsock.Listen(uint32(vsockPort), nil); log.Fatalf on an error
Listen ==
    /\ alive /\ listener.st = "start"
    /\ \E ok \in BOOLEAN :
        /\ listener' = [listener EXCEPT !.st = IF ok THEN "accepting" ELSE "fatal"]
        /\ alive' = ok
    /\ UNCHANGED << cli, io, scope, srv, spawned, pc, buf, args, env, acq, sent, closed, calls, fd,
                    saved, files, tmp >>

\* the accept loop that returns on an error of listener.Accept()
AcceptFailStops ==
    /\ alive /\ listener.st = "accepting" /\ listener.fails < MaxAcceptFails
    /\ listener' = [st |-> "stopped", fails |-> listener.fails + 1]
    /\ UNCHANGED << cli, io, scope, srv, alive, spawned, pc, buf, args, env, acq, sent, closed,
                    calls, fd, saved, files, tmp >>

\* conn, err := listener.Accept(); err != nil: log.Printf, continue
AcceptFail ==
    /\ alive /\ listener.st = "accepting" /\ listener.fails < MaxAcceptFails
    /\ listener' = [listener EXCEPT !.fails = @ + 1]
    /\ UNCHANGED << cli, io, scope, srv, alive, spawned, pc, buf, args, env, acq, sent, closed,
                    calls, fd, saved, files, tmp >>

\* startVsockServer: listener.Accept() returned a connection; go handleClient(conn)
Accept(c) ==
    /\ alive /\ listener.st = "accepting" /\ Active(c) /\ pc[c] = "new"
    /\ \A k \in Conns : k < c => pc[k] # "new"
    /\ pc' = [pc EXCEPT ![c] = "read"]
    /\ spawned' = [spawned EXCEPT ![c] = [n |-> @.n + 1, late |-> listener.fails > 0]]
    /\ UNCHANGED << cli, io, scope, srv, alive, listener, buf, args, env, acq, sent, closed, calls,
                    fd, saved, files, tmp >>

\* the handler that takes a failed read for the end of the connection
ReadTeardown(c) ==
    /\ alive /\ pc[c] = "read"
    /\ \E text \in Requests(srv, scope),
          r \in (IF scope = "many" THEN {"err", "full"} ELSE {"err", "full", "short"}) :
        IF r = "err"
        THEN Return(c) /\ UNCHANGED << buf, sent >>
        ELSE /\ buf' = [buf EXCEPT ![c] =
                            [text |-> text,
                             n |-> IF r = "full" THEN Min(text.size, ReadBufSize) ELSE 1]]
             /\ pc' = [pc EXCEPT ![c] = "parse"]
             /\ UNCHANGED << sent, closed, tmp >>
    /\ UNCHANGED << cli, io, scope, srv, alive, listener, spawned, args, env, acq, calls, fd, saved,
                    files >>

\* the handler whose buffer takes the whole request, whatever its length
ReadWhole(c) ==
    /\ alive /\ pc[c] = "read"
    /\ \E text \in Requests(srv, scope),
          r \in (IF scope = "many" THEN {"err", "full"} ELSE {"err", "full", "short"}) :
        IF r = "err"
        THEN Fail(c, << "read client data failed", "EOF" >>) /\ UNCHANGED buf
        ELSE /\ buf' = [buf EXCEPT ![c] =
                            [text |-> text, n |-> IF r = "full" THEN text.size ELSE 1]]
             /\ pc' = [pc EXCEPT ![c] = "parse"]
             /\ UNCHANGED << sent, closed, tmp >>
    /\ UNCHANGED << cli, io, scope, srv, alive, listener, spawned, args, env, acq, calls, fd, saved,
                    files >>

\* n, err := conn.Read(buffer)
Read(c) ==
    /\ alive /\ pc[c] = "read"
    /\ \E text \in Requests(srv, scope),
          r \in (IF scope = "many" THEN {"err", "full"} ELSE {"err", "full", "short"}) :
        IF r = "err"
        THEN Fail(c, << "read client data failed", "EOF" >>) /\ UNCHANGED buf
        ELSE /\ buf' = [buf EXCEPT ![c] =
                            [text |-> text,
                             n |-> IF r = "full" THEN Min(text.size, ReadBufSize) ELSE 1]]
             /\ pc' = [pc EXCEPT ![c] = "parse"]
             /\ UNCHANGED << sent, closed, tmp >>
    /\ UNCHANGED << cli, io, scope, srv, alive, listener, spawned, args, env, acq, calls, fd, saved,
                    files >>

\* the handler that goes on after a failed json.Unmarshal
ParseNoReturn(c) ==
    /\ alive /\ pc[c] = "parse"
    /\ LET u == IF srv = "legacy" THEN UnmarshalLegacy(buf[c].text, buf[c].n)
                ELSE UnmarshalExtended(buf[c].text, buf[c].n)
       IN  /\ args' = [args EXCEPT ![c] = u.args]
           /\ pc' = [pc EXCEPT ![c] =
                        IF srv = "legacy" THEN "acquire"
                        ELSE IF u.args.PublicKey # << >> THEN "mktemp" ELSE "exec"]
           /\ IF u.err # << >>
              THEN Write(c, sendErrorResponse(<< "parse arguments failed" >> \o u.err))
              ELSE UNCHANGED sent
           /\ UNCHANGED << closed, tmp >>
    /\ UNCHANGED << cli, io, scope, srv, alive, listener, spawned, buf, env, acq, calls, fd, saved,
                    files >>

\* json.Unmarshal(buffer[:n], &args)
Parse(c) ==
    /\ alive /\ pc[c] = "parse"
    /\ LET u == IF srv = "legacy" THEN UnmarshalLegacy(buf[c].text, buf[c].n)
                ELSE UnmarshalExtended(buf[c].text, buf[c].n)
       IN  IF u.err # << >>
           THEN Fail(c, << "parse arguments failed" >> \o u.err) /\ UNCHANGED args
           ELSE /\ args' = [args EXCEPT ![c] = u.args]
                /\ pc' = [pc EXCEPT ![c] =
                             IF srv = "legacy" THEN "acquire"
                             ELSE IF u.args.PublicKey # << >> THEN "mktemp" ELSE "exec"]
                /\ UNCHANGED << sent, closed, tmp >>
    /\ UNCHANGED << cli, io, scope, srv, alive, listener, spawned, buf, env, acq, calls, fd, saved,
                    files >>

\* what of the environment the call consults
Consulted(h, d, viaCLI) ==
    [h |-> IF viaCLI /\ h.found THEN h ELSE NoHelper,
     d |-> IF viaCLI /\ h.found THEN NoFrame ELSE d]

\* exec.Command("nsm-cli", cmdArgs...).CombinedOutput(): the output is the document
RunAttest(h) ==
    IF ~h.found
    THEN AcqResult(<< >>, << "executable file not found in $PATH" >>, FALSE, << >>, FALSE, FALSE)
    ELSE IF ~h.exit0
    THEN AcqResult(<< >>, << "exit status 1" >>, FALSE, << >>, FALSE, TRUE)
    ELSE AcqResult(h.out.raw, << >>, FALSE, << >>, FALSE, TRUE)

\* what the acquisition of handler c returns in the environment e
Acquirer(c, e) ==
    IF srv = "extended" THEN RunAttest(e.h)
    ELSE IF args[c].UseCLI THEN getSignedAttestationDocWithCLI(args[c].Nonce, e.h, e.d)
    ELSE getSignedAttestationDocDirect(args[c].Nonce, e.d)

\* where the handler goes on with a document
AfterAcquire(c) ==
    IF srv = "legacy" /\ args[c].OutputFile # << >> THEN "save" ELSE "respond"

\* the prefix of the error message of a failed acquisition
AcquireFailed ==
    IF srv = "legacy" THEN "get attestation document failed" ELSE "run nsm-cli attest failed"

\* the acquirer returns to the handler: the deferred nsmDevice.Close(), then
\* if err != nil { sendErrorResponse(conn, ...); return }
Finish(c, e) ==
    LET r == Acquirer(c, e)
    IN  /\ acq' = [acq EXCEPT ![c] = r]
        /\ IF r.panic THEN Crash(c)
           ELSE /\ fd' = [fd EXCEPT ![c] = FALSE]
                /\ UNCHANGED alive
                /\ IF r.err # << >> THEN Fail(c, << AcquireFailed >> \o r.err)
                   ELSE /\ pc' = [pc EXCEPT ![c] = AfterAcquire(c)]
                        /\ UNCHANGED << sent, closed, tmp >>

\* the handler that goes on after the error response of a failed acquisition
AcquireNoReturn(c) ==
    /\ alive /\ pc[c] = "acquire" /\ srv = "legacy"
    /\ \E h \in HelperBehaviours(scope), d \in DevBehaviours(scope) :
        LET e == Consulted(h, d, args[c].UseCLI)
            r == Acquirer(c, e)
        IN  /\ env' = [env EXCEPT ![c] = e]
            /\ calls' = [calls EXCEPT ![c] = @ + 1]
            /\ IF r.ran
               THEN /\ pc' = [pc EXCEPT ![c] = "helper"]
                    /\ UNCHANGED << alive, acq, sent, closed, fd, tmp >>
               ELSE IF r.opened
               THEN /\ pc' = [pc EXCEPT ![c] = "devwrite"]
                    /\ fd' = [fd EXCEPT ![c] = TRUE]
                    /\ UNCHANGED << alive, acq, sent, closed, tmp >>
               ELSE /\ acq' = [acq EXCEPT ![c] = r]
                    /\ pc' = [pc EXCEPT ![c] = AfterAcquire(c)]
                    /\ Write(c, sendErrorResponse(<< AcquireFailed >> \o r.err))
                    /\ UNCHANGED << alive, closed, fd, tmp >>
    /\ UNCHANGED << cli, io, scope, srv, listener, spawned, buf, args, saved, files >>

\* the acquisition that waits until no other handler is inside a helper or
\* device call
AcquireSerialized(c) ==
    /\ alive /\ pc[c] = "acquire" /\ srv = "legacy"
    /\ \A k \in Conns \ {c} : pc[k] \notin {"helper", "devwrite", "devread"}
    /\ \E h \in HelperBehaviours(scope), d \in DevBehaviours(scope) :
        LET e == Consulted(h, d, args[c].UseCLI)
            r == Acquirer(c, e)
        IN  /\ env' = [env EXCEPT ![c] = e]
            /\ calls' = [calls EXCEPT ![c] = @ + 1]
            /\ IF r.ran
               THEN /\ pc' = [pc EXCEPT ![c] = "helper"]
                    /\ UNCHANGED << alive, acq, sent, closed, fd, tmp >>
               ELSE IF r.opened
               THEN /\ pc' = [pc EXCEPT ![c] = "devwrite"]
                    /\ fd' = [fd EXCEPT ![c] = TRUE]
                    /\ UNCHANGED << alive, acq, sent, closed, tmp >>
               ELSE Finish(c, e)
    /\ UNCHANGED << cli, io, scope, srv, listener, spawned, buf, args, saved, files >>

\* the legacy handler calls getSignedAttestationDocWithCLI(args.Nonce) or
\* getSignedAttestationDocDirect(args.Nonce): up to the start of the helper, or to
\* os.OpenFile(nsmDevicePath, os.O_RDWR, 0)
Acquire(c) ==
    /\ alive /\ pc[c] = "acquire" /\ srv = "legacy"
    /\ \E h \in HelperBehaviours(scope), d \in DevBehaviours(scope) :
        LET e == Consulted(h, d, args[c].UseCLI)
            r == Acquirer(c, e)
        IN  /\ env' = [env EXCEPT ![c] = e]
            /\ calls' = [calls EXCEPT ![c] = @ + 1]
            /\ IF r.ran
               THEN /\ pc' = [pc EXCEPT ![c] = "helper"]
                    /\ UNCHANGED << alive, acq, sent, closed, fd, tmp >>
               ELSE IF r.opened
               THEN /\ pc' = [pc EXCEPT ![c] = "devwrite"]
                    /\ fd' = [fd EXCEPT ![c] = TRUE]
                    /\ UNCHANGED << alive, acq, sent, closed, tmp >>
               ELSE Finish(c, e)
    /\ UNCHANGED << cli, io, scope, srv, listener, spawned, buf, args, saved, files >>

\* nsmDevice.Write was called once more
Wrote(c) == io' = [io EXCEPT ![c].writes = @ + 1]

\* the binary.Read calls of one response: the header, and the body when the
\* header was read
ReadCalls(d) == IF d.avail < RespHeaderSize THEN 1 ELSE 2

\* the device call that tries again when its write failed
DevWriteRetry(c) ==
    /\ alive /\ pc[c] = "devwrite"
    /\ Wrote(c)
    /\ IF Acquirer(c, env[c]).wrote = << >>
       THEN IF calls[c] < 2
            THEN /\ pc' = [pc EXCEPT ![c] = "acquire"]
                 /\ fd' = [fd EXCEPT ![c] = FALSE]
                 /\ UNCHANGED << alive, acq, sent, closed, tmp >>
            ELSE Finish(c, env[c])
       ELSE /\ pc' = [pc EXCEPT ![c] = "devread"]
            /\ UNCHANGED << alive, acq, sent, closed, fd, tmp >>
    /\ UNCHANGED << cli, scope, srv, listener, spawned, buf, args, env, calls, saved, files >>

\* the device call that returns without closing the device when its write failed
DevWriteLeak(c) ==
    /\ alive /\ pc[c] = "devwrite"
    /\ Wrote(c)
    /\ IF Acquirer(c, env[c]).wrote = << >>
       THEN /\ acq' = [acq EXCEPT ![c] = Acquirer(c, env[c])]
            /\ Fail(c, << AcquireFailed >> \o Acquirer(c, env[c]).err)
            /\ UNCHANGED << alive, fd >>
       ELSE /\ pc' = [pc EXCEPT ![c] = "devread"]
            /\ UNCHANGED << alive, acq, sent, closed, fd, tmp >>
    /\ UNCHANGED << cli, scope, srv, listener, spawned, buf, args, env, calls, saved, files >>

\* getSignedAttestationDocDirect: nsmDevice.Write(reqBuf.Bytes())
DevWrite(c) ==
    /\ alive /\ pc[c] = "devwrite"
    /\ Wrote(c)
    /\ IF Acquirer(c, env[c]).wrote = << >>
       THEN Finish(c, env[c])
       ELSE /\ pc' = [pc EXCEPT ![c] = "devread"]
            /\ UNCHANGED << alive, acq, sent, closed, fd, tmp >>
    /\ UNCHANGED << cli, scope, srv, listener, spawned, buf, args, env, calls, saved, files >>

\* the device call that reads the whole response again when the body came short
DevReadAgain(c) ==
    /\ alive /\ pc[c] = "devread"
    /\ io' = [io EXCEPT ![c].reads =
                  @ + ReadCalls(env[c].d)
                    + (IF env[c].d.avail >= RespHeaderSize
                          /\ env[c].d.avail < RespHeaderSize + RespBodySize
                       THEN 2 ELSE 0)]
    /\ Finish(c, env[c])
    /\ UNCHANGED << cli, scope, srv, listener, spawned, buf, args, env, calls, saved, files >>

\* getSignedAttestationDocDirect: binary.Read of the header, binary.Read of the
\* body, the test of Status, the slice and its encoding
DevRead(c) ==
    /\ alive /\ pc[c] = "devread"
    /\ io' = [io EXCEPT ![c].reads = @ + ReadCalls(env[c].d)]
    /\ Finish(c, env[c])
    /\ UNCHANGED << cli, scope, srv, listener, spawned, buf, args, env, calls, saved, files >>

\* cmd.Output() / cmd.CombinedOutput() returns: the helper has exited
HelperExit(c) ==
    /\ alive /\ pc[c] = "helper"
    /\ Finish(c, env[c])
    /\ UNCHANGED << cli, io, scope, srv, listener, spawned, buf, args, env, calls, saved, files >>

\* the save that writes the base64 text of the document to the file
saveBase64Text(document, old, w) ==
    IF w = "openfail" THEN [err |-> << "write file failed" >>, file |-> old]
    ELSE IF w = "writefail"
    THEN [err |-> << "write file failed" >>, file |-> [exists |-> TRUE, bytes |-> << >>]]
    ELSE [err |-> << >>, file |-> [exists |-> TRUE, bytes |-> document]]

\* saveAttestationDoc of src/enclave/main.go: the error it returns and the file it
\* leaves.  os.WriteFile fails at the open (the file is as it was) or at the write
\* (the file was truncated by the open).
saveAttestationDoc(document, old, w) ==
    LET dec == DecodeString(document)
    IN  IF ~dec.ok THEN [err |-> << "decode attestation document failed" >>, file |-> old]
        ELSE IF w = "openfail" THEN [err |-> << "write file failed" >>, file |-> old]
        ELSE IF w = "writefail"
        THEN [err |-> << "write file failed" >>, file |-> [exists |-> TRUE, bytes |-> << >>]]
        ELSE [err |-> << >>, file |-> [exists |-> TRUE, bytes |-> dec.bytes]]

\* the handler that answers a failed saveAttestationDoc with an error response
SaveOrFail(c) ==
    /\ alive /\ pc[c] = "save"
    /\ \E w \in (IF scope = "many" THEN {"ok", "openfail"}
                 ELSE {"ok", "openfail", "writefail"}) :
        LET s == saveAttestationDoc(acq[c].doc, files[args[c].OutputFile], w)
        IN  /\ files' = [files EXCEPT ![args[c].OutputFile] = s.file]
            /\ saved' = [saved EXCEPT ![c] = [called |-> TRUE, err |-> s.err]]
            /\ IF s.err # << >>
               THEN Fail(c, << "save attestation document failed" >> \o s.err)
               ELSE /\ pc' = [pc EXCEPT ![c] = "respond"]
                    /\ UNCHANGED << sent, closed, tmp >>
    /\ UNCHANGED << cli, io, scope, srv, alive, listener, spawned, buf, args, env, acq, calls, fd >>

\* if args.OutputFile != "" { saveAttestationDoc(document, args.OutputFile) }: the
\* error is logged and the handler goes on
Save(c) ==
    /\ alive /\ pc[c] = "save"
    /\ \E w \in (IF scope = "many" THEN {"ok", "openfail"}
                 ELSE {"ok", "openfail", "writefail"}) :
        LET s == saveAttestationDoc(acq[c].doc, files[args[c].OutputFile], w)
        IN  /\ files' = [files EXCEPT ![args[c].OutputFile] = s.file]
            /\ saved' = [saved EXCEPT ![c] = [called |-> TRUE, err |-> s.err]]
    /\ pc' = [pc EXCEPT ![c] = "respond"]
    /\ UNCHANGED << cli, io, scope, srv, alive, listener, spawned, buf, args, env, acq, sent, closed,
                    calls, fd, tmp >>

\* the success response of the legacy handler
SuccessResponse(a, document) ==
    LET parsed == parseAttestationDoc(document)
    IN  Response(TRUE, << >>, document,
                 IF a.Parse /\ parsed.err = << >> THEN parsed.map ELSE NilMap)

\* response := Response{Success: true, Document: document}, parsed_doc when asked
\* for, json.Marshal, conn.Write, return
Respond(c) ==
    /\ alive /\ pc[c] = "respond" /\ srv = "legacy"
    /\ Write(c, Marshal(SuccessResponse(args[c], acq[c].doc)))
    /\ Return(c)
    /\ UNCHANGED << cli, io, scope, srv, alive, listener, spawned, buf, args, env, acq, calls, fd,
                    saved, files >>

(***************************************************************************)
(* The extended handler, src/unnamed/part_001.                             *)
(***************************************************************************)
\* the names of the temporary files that exist
TmpInUse == {tmp[k].name : k \in {j \in Conns : tmp[j].st \in {"created", "written"}}}

\* tmpFile, err := os.CreateTemp("", "pubkey-*.der"); defer os.Remove(tmpFile.Name()).
\* CreateTemp opens with O_EXCL: the name it returns is the name of no existing file.
MkTemp(c) ==
    /\ alive /\ pc[c] = "mktemp"
    /\ \/ \E name \in TmpNames \ TmpInUse :
            /\ tmp' = [tmp EXCEPT ![c] =
                          [st |-> "created", bytes |-> << >>, fd |-> TRUE, name |-> name]]
            /\ pc' = [pc EXCEPT ![c] = "keywrite"]
            /\ UNCHANGED << sent, closed >>
       \/ Fail(c, << "create temporary key file failed" >>)
    /\ UNCHANGED << cli, io, scope, srv, alive, listener, spawned, buf, args, env, acq, calls, fd,
                    saved, files >>

\* base64.StdEncoding.DecodeString(args.PublicKey); tmpFile.Write; tmpFile.Close
KeyWrite(c) ==
    /\ alive /\ pc[c] = "keywrite"
    /\ LET dec == DecodeString(args[c].PublicKey)
       IN  IF ~dec.ok THEN Fail(c, << "decode public key failed" >>)
           ELSE \E w \in {"ok", "writefail", "closefail"} :
                IF w = "writefail" THEN Fail(c, << "write key file failed" >>)
                ELSE IF w = "closefail" THEN Fail(c, << "close key file failed" >>)
                ELSE /\ tmp' = [tmp EXCEPT ![c] =
                                    [@ EXCEPT !.st = "written", !.bytes = dec.bytes,
                                              !.fd = FALSE]]
                     /\ pc' = [pc EXCEPT ![c] = "exec"]
                     /\ UNCHANGED << sent, closed >>
    /\ UNCHANGED << cli, io, scope, srv, alive, listener, spawned, buf, args, env, acq, calls, fd,
                    saved, files >>

\* cmd := exec.Command("nsm-cli", cmdArgs...); cmd.CombinedOutput(): up to the
\* start of the helper
Exec(c) ==
    /\ alive /\ pc[c] = "exec" /\ srv = "extended"
    /\ \E h \in HelperBehaviours(scope) :
        LET e == Consulted(h, NoFrame, TRUE)
        IN  /\ env' = [env EXCEPT ![c] = e]
            /\ calls' = [calls EXCEPT ![c] = @ + 1]
            /\ IF Acquirer(c, e).ran
               THEN /\ pc' = [pc EXCEPT ![c] = "helper"]
                    /\ UNCHANGED << alive, acq, sent, closed, fd, tmp >>
               ELSE Finish(c, e)
    /\ UNCHANGED << cli, io, scope, srv, listener, spawned, buf, args, saved, files >>

\* response := Response{Success: true, Document: string(output)}, json.Marshal,
\* conn.Write, return
RespondExt(c) ==
    /\ alive /\ pc[c] = "respond" /\ srv = "extended"
    /\ Write(c, Marshal(Response(TRUE, << >>, acq[c].doc, NilMap)))
    /\ Return(c)
    /\ UNCHANGED << cli, io, scope, srv, alive, listener, spawned, buf, args, env, acq, calls, fd,
                    saved, files >>

(***************************************************************************)
(* The client on the host (src/host/client.go for the extended server,     *)
(* src/unnamed/part_000 and the client mode of src/enclave/main.go for the *)
(* legacy one), from its conn.Read of the response to its exit.            *)
(***************************************************************************)
\* json.Unmarshal(buffer[:n], &response) of a response text read in full
UnmarshalResponse(text) ==
    Response(text.success,
             IF "error_message" \in text.members THEN text.error_message ELSE << >>,
             IF "document" \in text.members THEN text.document ELSE << >>,
             IF srv = "legacy" /\ "parsed_doc" \in text.members THEN text.parsed_doc
             ELSE NilMap)

\* saveAttestationDoc of src/host/client.go: a document that is not base64 is
\* saved as it is
saveAttestationDocRaw(document, old, w) ==
    LET dec == DecodeString(document)
        docBytes == IF dec.ok THEN dec.bytes ELSE document
    IN  IF w = "openfail" THEN [err |-> << "write file failed" >>, file |-> old]
        ELSE IF w = "writefail"
        THEN [err |-> << "write file failed" >>, file |-> [exists |-> TRUE, bytes |-> << >>]]
        ELSE [err |-> << >>, file |-> [exists |-> TRUE, bytes |-> docBytes]]

\* the end of the client process
Exited(rcv, exit, log, stdout, output, file) ==
    [pc |-> "exited", rcv |-> rcv, exit |-> exit, log |-> log, stdout |-> stdout,
     output |-> output, file |-> file]

\* the client that saves the document before it tests response.Success
ClientSavesFirst(rcv, text, output, w) ==
    IF rcv = "err" THEN Exited(rcv, 1, << "read response failed" >>, << >>, output, NoFile)
    ELSE IF rcv # "full"
    THEN Exited(rcv, 1, << "parse response failed" >>, << >>, output, NoFile)
    ELSE
        LET response == UnmarshalResponse(text)
            s == IF output = << >> THEN [err |-> << >>, file |-> NoFile]
                 ELSE saveAttestationDocRaw(response.Document, NoFile, w)
        IN  IF ~response.Success
            THEN Exited(rcv, 1, << "Enclave returned error" >> \o response.ErrorMessage,
                        << >>, output, s.file)
            ELSE Exited(rcv, 0, s.err, response.Document, output, s.file)

\* main of the client after conn.Write: conn.Read, json.Unmarshal, the test of
\* response.Success (log.Fatalf exits with status 1), saveAttestationDoc, the print
ClientRun(rcv, text, output, w) ==
    IF rcv = "err" THEN Exited(rcv, 1, << "read response failed" >>, << >>, output, NoFile)
    ELSE IF rcv # "full"
    THEN Exited(rcv, 1, << "parse response failed" >>, << >>, output, NoFile)
    ELSE
        LET response == UnmarshalResponse(text)
        IN  IF ~response.Success
            THEN Exited(rcv, 1, << "Enclave returned error" >> \o response.ErrorMessage,
                        << >>, output, NoFile)
            ELSE
                LET s == IF output = << >> THEN [err |-> << >>, file |-> NoFile]
                         ELSE IF srv = "legacy"
                         THEN saveAttestationDoc(response.Document, NoFile, w)
                         ELSE saveAttestationDocRaw(response.Document, NoFile, w)
                IN  Exited(rcv, 0, s.err, response.Document, output, s.file)

\* the response text has reached the client
Delivered == sent[ClientConn] # << >> /\ sent[ClientConn][1].ok

\* the client's conn.Read returns: the text, a part of it, the end of the
\* connection, or an error
Client ==
    /\ cli.pc = "wait"
    /\ Delivered \/ closed[ClientConn]
    /\ \E rcv \in (IF scope = "many" THEN (IF Delivered THEN {"full"} ELSE {"eof"})
                   ELSE IF Delivered THEN {"full", "short", "err"} ELSE {"eof", "err"}),
          output \in (IF scope = "many" THEN {StrO} ELSE {<< >>, StrO}),
          w \in (IF scope = "many" THEN {"ok"} ELSE {"ok", "openfail"}) :
        cli' = ClientRun(rcv, IF Delivered THEN sent[ClientConn][1].text
                              ELSE sendErrorResponse(<< >>), output, w)
    /\ UNCHANGED << scope, srv, alive, listener, spawned, pc, buf, args, env, acq, sent,
                    closed, calls, fd, io, saved, files, tmp >>


Next ==
    \/ Listen
    \/ AcceptFail
    \/ Client
    \/ \E c \in Conns :
        \/ Accept(c)
        \/ Read(c)
        \/ Parse(c)
        \/ Acquire(c)
        \/ DevWrite(c)
        \/ DevRead(c)
        \/ HelperExit(c)
        \/ Save(c)
        \/ Respond(c)
        \/ MkTemp(c)
        \/ KeyWrite(c)
        \/ Exec(c)
        \/ RespondExt(c)

Spec == Init /\ [][Next]_vars

\* the statements of handler c that the scheduler runs: they block on nothing
Runs(c) ==
    \/ Parse(c)
    \/ Acquire(c)
    \/ Save(c)
    \/ Respond(c)
    \/ MkTemp(c)
    \/ KeyWrite(c)
    \/ Exec(c)
    \/ RespondExt(c)

\* the blocking calls of handler c return: conn.Read, the helper, the device
Returns(c) ==
    \/ Read(c)
    \/ DevWrite(c)
    \/ DevRead(c)
    \/ HelperExit(c)

\* every goroutine that can run does run; a blocking call may never return
LiveSpec == Spec /\ \A c \in Conns : WF_vars(Runs(c))

(***************************************************************************)
(* Vocabulary of the properties.                                           *)
(***************************************************************************)
Range(q) == {q[i] : i \in DOMAIN q}

\* the state of the connection's state machine
Phase(c) ==
    CASE pc[c] = "new" -> "NotAccepted"
      [] pc[c] = "read" -> "AwaitingRequest"
      [] pc[c] = "parse" -> "RequestParsed"
      [] pc[c] \in {"acquire", "helper", "devwrite", "devread", "save", "respond", "mktemp",
                    "keywrite", "exec", "panicked"}
            -> "AcquiringDocument"
      [] pc[c] = "done" ->
            IF sent[c] # << >> /\ sent[c][Len(sent[c])].text.success
            THEN "ResponseSent" ELSE "ErrorSent"

Terminal(c) == Phase(c) \in {"ResponseSent", "ErrorSent"}

\* the handler's buffer deserializes as a request
Deserialized(c) ==
    /\ buf[c].n > 0
    /\ (IF srv = "legacy" THEN UnmarshalLegacy(buf[c].text, buf[c].n)
        ELSE UnmarshalExtended(buf[c].text, buf[c].n)).err = << >>

\* the handler has returned
Returned(c) == pc[c] = "done"

IsErrorText(t, part) ==
    /\ ~t.success
    /\ "error_message" \in t.members
    /\ "document" \notin t.members
    /\ part \in Range(t.error_message)

\* the handler's call read a whole response frame from the device
FrameRead(c) ==
    /\ calls[c] > 0 /\ srv = "legacy"
    /\ acq[c].opened /\ acq[c].wrote # << >>
    /\ env[c].d.avail >= 8 + 12 + 16384

\* the fields of the frame, least significant byte first
FrameStatus(d) == d.head[13] + 256 * d.head[14] + 65536 * d.head[15] + 16777216 * d.head[16]
FrameDocLen(d) == d.head[17] + 256 * d.head[18] + 65536 * d.head[19] + 16777216 * d.head[20]

(***************************************************************************)
(* C1: a handler only moves forward through AwaitingRequest,               *)
(* RequestParsed, AcquiringDocument, ResponseSent, or from a non-terminal  *)
(* state to ErrorSent; the acquirer is called only after the request       *)
(* deserialized, a success response is written only after the acquirer     *)
(* returned success, and nothing happens after a terminal state.           *)
(***************************************************************************)
C1_Step(c) ==
    /\ Phase(c)' = "AwaitingRequest" => Phase(c) \in {"NotAccepted", "AwaitingRequest"}
    /\ Phase(c)' = "RequestParsed" => Phase(c) \in {"AwaitingRequest", "RequestParsed"}
    /\ Phase(c)' = "AcquiringDocument" => Phase(c) \in {"RequestParsed", "AcquiringDocument"}
    /\ Phase(c)' = "ResponseSent" => Phase(c) \in {"AcquiringDocument", "ResponseSent"}
    /\ Phase(c)' = "NotAccepted" => Phase(c) = "NotAccepted"
    /\ calls'[c] > calls[c] => Deserialized(c) /\ Phase(c) = "AcquiringDocument"
    /\ \A i \in DOMAIN sent'[c] :
          (i \notin DOMAIN sent[c] /\ sent'[c][i].text.success)
              => /\ calls[c] > 0 /\ acq[c].err = << >> /\ ~acq[c].panic
                 /\ Phase(c) = "AcquiringDocument"
    /\ Terminal(c) =>
          /\ pc'[c] = pc[c] /\ sent'[c] = sent[c] /\ calls'[c] = calls[c]
          /\ acq'[c] = acq[c] /\ closed'[c] = closed[c] /\ tmp'[c] = tmp[c]
          /\ fd'[c] = fd[c] /\ saved'[c] = saved[c]

C1_ForwardOnly == [][\A c \in Conns : C1_Step(c)]_vars

C1_Witness ==
    \E c \in Conns :
        /\ Phase(c) = "ResponseSent" /\ calls[c] = 1 /\ Deserialized(c)
        /\ Len(sent[c]) = 1 /\ closed[c]

(***************************************************************************)
(* C2: on every path through handleClient the response is written exactly  *)
(* once and the connection is closed.  A handler's path has ended when it  *)
(* returned or panicked, or when the process was terminated under it.      *)
(***************************************************************************)
C2_OneResponseOnEveryPath ==
    \A c \in Conns :
        /\ Len(sent[c]) <= 1
        /\ (pc[c] \in {"done", "panicked"} \/ (~alive /\ pc[c] # "new"))
              => Len(sent[c]) = 1 /\ closed[c]

(***************************************************************************)
(* C3: every response text has one payload shape: success=false with an    *)
(* error_message and no document, or success=true with a document and no   *)
(* error_message.                                                          *)
(***************************************************************************)
C3_OnePayloadShape ==
    \A c \in Conns : \A i \in DOMAIN sent[c] :
        LET t == sent[c][i].text
        IN  sent[c][i].ok =>
                IF t.success
                THEN "document" \in t.members /\ "error_message" \notin t.members
                ELSE "error_message" \in t.members /\ "document" \notin t.members

(***************************************************************************)
(* C4: a request for the CLI strategy whose helper cannot be located gets  *)
(* the result of an explicit DirectDevice request with the same            *)
(* parameters, whatever the device does.                                   *)
(***************************************************************************)
\* the handler used the CLI strategy and nsm-cli was not found
HelperMissing(c) ==
    /\ calls[c] > 0 /\ pc[c] \notin {"helper", "devwrite", "devread"}
    /\ (srv = "legacy" => args[c].UseCLI)
    /\ ~env[c].h.found

\* the device behaviours the handler's call may have met: the one it met when
\* it consulted the device, any when it did not
DeviceOf(c) == IF acq[c].opened \/ ~env[c].d.open THEN {env[c].d} ELSE DevBehaviours(scope)

SameAsDirect(c) ==
    \A d \in DeviceOf(c) :
        LET direct == getSignedAttestationDocDirect(args[c].Nonce, d)
        IN  /\ acq[c].doc = direct.doc /\ acq[c].err = direct.err
            /\ acq[c].panic = direct.panic /\ acq[c].wrote = direct.wrote
            /\ acq[c].opened = direct.opened

\* the claim as stated: in every server handler
C4_FallbackEverywhere == \A c \in Conns : HelperMissing(c) => SameAsDirect(c)

\* amended: in the handler of src/enclave/main.go; the handler of
\* src/unnamed/part_001 never consults the device and answers with the error
C4_FallbackLegacy ==
    \A c \in Conns :
        HelperMissing(c) =>
            IF srv = "legacy" THEN SameAsDirect(c)
            ELSE /\ ~acq[c].opened /\ acq[c].wrote = << >> /\ acq[c].err # << >>
                 /\ Returned(c) /\ Len(sent[c]) = 1
                 /\ IsErrorText(sent[c][1].text, "run nsm-cli attest failed")

C4_Witness ==
    \E c \in Conns :
        /\ srv = "legacy" /\ HelperMissing(c) /\ acq[c].opened
        /\ acq[c].doc # << >> /\ Len(args[c].Nonce) > 0
        /\ Returned(c) /\ sent[c][1].text.success

(***************************************************************************)
(* C5: a response frame whose documentLen exceeds the capacity of 16384    *)
(* gives an error response on its connection and never terminates the      *)
(* server process.                                                         *)
(***************************************************************************)
C5_OverlongFrameIsAnError ==
    \A c \in Conns :
        (FrameRead(c) /\ FrameDocLen(env[c].d) > 16384) =>
            /\ alive
            /\ Returned(c) /\ Len(sent[c]) = 1 /\ ~sent[c][1].text.success

(***************************************************************************)
(* C6: a response frame with status # 0 makes the acquisition fail with an *)
(* error that carries the status; the response has success=false, the      *)
(* status in its error_message and no document, whatever documentLen and   *)
(* documentData are.                                                       *)
(***************************************************************************)
C6_StatusError ==
    \A c \in Conns :
        (FrameRead(c) /\ FrameStatus(env[c].d) # 0) =>
            /\ ~acq[c].panic
            /\ acq[c].doc = << >>
            /\ ToString(FrameStatus(env[c].d)) \in Range(acq[c].err)
            /\ Returned(c) /\ Len(sent[c]) = 1
            /\ IsErrorText(sent[c][1].text, ToString(FrameStatus(env[c].d)))
            /\ sent[c][1].text.document = << >>

C6_Witness ==
    \E c \in Conns :
        /\ FrameRead(c) /\ FrameStatus(env[c].d) = 256
        /\ FrameDocLen(env[c].d) > 16384
        /\ Returned(c) /\ sent[c][1].ok

(***************************************************************************)
(* C7: for a frame with status = 0 and documentLen <= 16384 the            *)
(* acquisition returns the base64 encoding of DocumentData[0:documentLen]  *)
(* and of nothing beyond it.                                               *)
(***************************************************************************)
\* DocumentData[0:n] of a frame
DataPrefix(d, n) == [i \in 1..n |-> IF i <= Len(d.data) THEN d.data[i] ELSE d.fill]

C7_ExactDocument ==
    \A c \in Conns :
        (FrameRead(c) /\ FrameStatus(env[c].d) = 0 /\ FrameDocLen(env[c].d) <= 16384) =>
            LET n == FrameDocLen(env[c].d)
                dec == DecodeString(acq[c].doc)
            IN  /\ acq[c].err = << >> /\ ~acq[c].panic
                /\ dec.ok /\ Len(dec.bytes) = n
                /\ dec.bytes = DataPrefix(env[c].d, n)
                /\ acq[c].doc = EncodeToString(DataPrefix(env[c].d, n))

C7_Witness ==
    \E c \in Conns :
        /\ FrameRead(c) /\ FrameStatus(env[c].d) = 0
        /\ FrameDocLen(env[c].d) = 1 /\ Len(env[c].d.data) > 1 /\ env[c].d.fill # 0
        /\ acq[c].doc = << 97, 65, 61, 61 >>

(***************************************************************************)
(* C8: for a nonce of at most 64 bytes the frame written to the device is  *)
(* messageType 0x20, messageLen 68 (the size of the body), version 1 and   *)
(* the nonce followed by zeros up to 64 bytes, integers little-endian.     *)
(***************************************************************************)
C8_RequestFrame ==
    \A c \in Conns :
        (calls[c] > 0 /\ acq[c].wrote # << >> /\ Len(args[c].Nonce) <= 64) =>
            LET f == acq[c].wrote
                n == Len(args[c].Nonce)
            IN  /\ Len(f) = 8 + 68
                /\ SubSeq(f, 1, 4) = << 32, 0, 0, 0 >>
                /\ SubSeq(f, 5, 8) = << 68, 0, 0, 0 >>
                /\ SubSeq(f, 9, 12) = << 1, 0, 0, 0 >>
                /\ SubSeq(f, 13, 12 + n) = args[c].Nonce
                /\ \A i \in (13 + n)..76 : f[i] = 0

C8_Witness ==
    \E c \in Conns :
        /\ calls[c] > 0 /\ acq[c].wrote # << >>
        /\ Len(args[c].Nonce) = 64 /\ args[c].Nonce[64] # 0

(***************************************************************************)
(* C9: a read that yields no bytes.                                        *)
(***************************************************************************)
\* conn.Read returned an error and no bytes, and the handler has returned
ReadFailed(c) == Returned(c) /\ buf[c].n = 0

\* the claim as stated: the handler closes the connection without writing a
\* response and without calling the acquirer
C9_TeardownWithoutResponse ==
    \A c \in Conns : ReadFailed(c) => sent[c] = << >> /\ closed[c] /\ calls[c] = 0

\* amended: the handler calls conn.Write once, with a success=false response that
\* carries the read failure, does not call the acquirer and closes the connection
C9_ReadFailureAnswered ==
    \A c \in Conns :
        ReadFailed(c) =>
            /\ Len(sent[c]) = 1
            /\ IsErrorText(sent[c][1].text, "read client data failed")
            /\ calls[c] = 0 /\ ~acq[c].opened /\ ~acq[c].ran
            /\ closed[c]

C9_Witness ==
    \E c \in Conns : ReadFailed(c) /\ Len(sent[c]) = 1 /\ sent[c][1].ok /\ closed[c]

(***************************************************************************)
(* C10: when the bytes received do not deserialize as a request the        *)
(* handler writes one success=false response with a parse failure message, *)
(* calls neither the helper nor the device, closes the connection, and the *)
(* process keeps running.                                                  *)
(***************************************************************************)
ParseFailed(c) == Returned(c) /\ buf[c].n > 0 /\ ~Deserialized(c)

C10_Answered ==
    \A c \in Conns :
        ParseFailed(c) =>
            /\ Len(sent[c]) = 1
            /\ IsErrorText(sent[c][1].text, "parse arguments failed")
            /\ calls[c] = 0 /\ ~acq[c].opened /\ ~acq[c].ran /\ tmp[c].st = "none"
            /\ closed[c]

C10_ParseFailure ==
    /\ []C10_Answered
    /\ [][\A c \in Conns :
            (pc[c] = "parse" /\ ~Deserialized(c) /\ pc'[c] # pc[c])
                => alive' /\ pc'[c] = "done"]_vars

C10_Witness ==
    \E c \in Conns :
        /\ ParseFailed(c) /\ buf[c].text.j = "garbage" /\ alive
        /\ Len(sent[c]) = 1 /\ sent[c][1].ok

(***************************************************************************)
(* C11: when the acquirer returns an error (helper not found, helper       *)
(* execution failed, helper output unparseable, device open failed, device *)
(* protocol error, device status error) the handler has called the         *)
(* acquirer once, the call tried one of helper and device only, and the    *)
(* handler writes one success=false response whose error_message ends with *)
(* the acquirer's error text; no handler calls the acquirer a second time. *)
(***************************************************************************)
\* the acquirer returned an error to the handler
AcquirerFailed(c) == calls[c] > 0 /\ acq[c].err # << >>

PersistFailed(c) == saved[c].called /\ saved[c].err # << >>

C12_PersistFailureKeepsResponse ==
    \A c \in Conns :
        /\ saved[c].called =>
              /\ args[c].OutputFile # << >>
              /\ calls[c] = 1 /\ acq[c].err = << >> /\ ~acq[c].panic
        /\ (PersistFailed(c) /\ Returned(c)) =>
              /\ Len(sent[c]) = 1
              /\ sent[c][1].text = Marshal(SuccessResponse(args[c], acq[c].doc))
              /\ sent[c][1].text.success
              /\ sent[c][1].text.document = acq[c].doc
              /\ "error_message" \notin sent[c][1].text.members

C12_Witness ==
    \E c \in Conns :
        /\ PersistFailed(c) /\ "write file failed" \in Range(saved[c].err)
        /\ Returned(c) /\ sent[c][1].ok /\ sent[c][1].text.success
        /\ sent[c][1].text.document # << >>

(***************************************************************************)
(* C13: a success response carries parsed_doc if and only if the request   *)
(* had parse=true and parseAttestationDoc decoded the document; when the   *)
(* decode fails, or parse=false, the response is success=true with the     *)
(* document and without parsed_doc.                                        *)
(***************************************************************************)
\* the handler wrote a success response
Succeeded(c) == Returned(c) /\ Len(sent[c]) = 1 /\ sent[c][1].text.success

C13_ParsedDocIff ==
    \A c \in Conns :
        Succeeded(c) =>
            /\ sent[c][1].text.document = acq[c].doc
            /\ "parsed_doc" \in sent[c][1].text.members
                  <=> (args[c].Parse /\ parseAttestationDoc(acq[c].doc).err = << >>)

(***************************************************************************)
(* C14: in the handler of src/unnamed/part_001, with a non-empty           *)
(* public_key: the helper is started only when the temporary key file      *)
(* holds the decoded key and is closed; the file exists as written while   *)
(* the helper runs; when the handler has returned the file no longer       *)
(* exists, after helper success, helper failure, and after a failure to    *)
(* decode the key or to write or close the file, on which the helper was   *)
(* never started.                                                          *)
(***************************************************************************)
\* the handler passes a key file to the helper
WithKey(c) == srv = "extended" /\ args[c].PublicKey # << >>

\* the temporary file of the handler exists
TmpExists(c) == tmp[c].st \in {"created", "written"}

C14_KeyFileState ==
    \A c \in Conns :
        /\ (WithKey(c) /\ pc[c] \in {"exec", "helper"}) =>
              /\ tmp[c].st = "written" /\ ~tmp[c].fd
              /\ tmp[c].bytes = DecodeString(args[c].PublicKey).bytes
        /\ Returned(c) => ~TmpExists(c)
        /\ (WithKey(c) /\ Returned(c) /\ calls[c] = 0) =>
              /\ ~acq[c].ran /\ env[c] = NoEnv
              /\ Len(sent[c]) = 1 /\ ~sent[c][1].text.success
        /\ (WithKey(c) /\ Returned(c) /\ calls[c] > 0) => tmp[c].st = "removed"
        /\ tmp[c].st # "none" => WithKey(c)

C14_KeyFileLifecycle ==
    /\ []C14_KeyFileState
    /\ [][\A c \in Conns :
            /\ (WithKey(c) /\ calls'[c] > calls[c]) =>
                  /\ tmp[c].st = "written" /\ ~tmp[c].fd
                  /\ DecodeString(args[c].PublicKey).ok
                  /\ tmp[c].bytes = DecodeString(args[c].PublicKey).bytes
            /\ (TmpExists(c) /\ ~TmpExists(c)') => pc'[c] = "done"]_vars

C14_Witness ==
    \E c \in Conns :
        /\ WithKey(c) /\ Returned(c) /\ calls[c] = 1
        /\ acq[c].ran /\ acq[c].err # << >>
        /\ tmp[c].st = "removed" /\ tmp[c].bytes = << 104, 105 >>

(***************************************************************************)
(* C15: getSignedAttestationDocDirect closes the device on every way out:  *)
(* a handler holds a descriptor of the device only between the open and    *)
(* the return of its call, and holds none once the call has returned, be   *)
(* it after a failed write, a failed read of the header or of the body, a  *)
(* status that is not 0, or a document.                                    *)
(***************************************************************************)
\* the handler is inside getSignedAttestationDocDirect, the device open
InDeviceCall(c) == pc[c] \in {"devwrite", "devread"}

\* the call of the acquirer has returned to the handler
CallReturned(c) == calls[c] > 0 /\ pc[c] \notin {"helper", "devwrite", "devread"}

C15_DeviceClosedOnReturn ==
    \A c \in Conns :
        /\ fd[c] => (InDeviceCall(c) /\ alive)
        /\ (CallReturned(c) /\ acq[c].opened) => ~fd[c]
        /\ (InDeviceCall(c) /\ alive) => fd[c]

C15_Witness ==
    \E c \in Conns :
        /\ CallReturned(c) /\ acq[c].opened /\ ~fd[c]
        /\ "send request failed" \in Range(acq[c].err)
        /\ Returned(c)

(***************************************************************************)
(* C16: the device is used by one call at a time: no two handlers have the *)
(* device open together, so no handler writes its request or reads its     *)
(* response between the write and the read of another handler.             *)
(***************************************************************************)
\* the handlers that hold a descriptor of the device
Holders == {c \in Conns : fd[c]}

\* handler c wrote its request and did not read the response yet
AwaitsResponse(c) == fd[c] /\ pc[c] = "devread"

C16_DeviceExclusive ==
    /\ Cardinality(Holders) <= 1
    /\ \A c \in Conns : AwaitsResponse(c) => \A k \in Conns \ {c} : ~InDeviceCall(k)

(***************************************************************************)
(* C17: connections share no mutable state: whatever the interleaving of   *)
(* the handlers, every accepted connection gets the response its own       *)
(* request gets when it is handled alone, and the temporary key files of   *)
(* two handlers never have the same path.                                  *)
(***************************************************************************)
\* the response of handler c, from its own request and its own acquisition
ResponseAlone(c) ==
    LET r == Acquirer(c, env[c])
    IN  IF r.err # << >> THEN sendErrorResponse(<< AcquireFailed >> \o r.err)
        ELSE IF srv = "legacy" THEN Marshal(SuccessResponse(args[c], r.doc))
        ELSE Marshal(Response(TRUE, << >>, r.doc, NilMap))

\* the handler of c can take no further step, and did not panic itself
Stopped(c) == pc[c] \notin {"new", "panicked"} /\ (~alive \/ pc[c] = "done")

C17_NoSharedState ==
    /\ \A c \in Conns :
          Stopped(c) =>
              /\ Returned(c) /\ Len(sent[c]) = 1
              /\ calls[c] > 0 => sent[c][1].text = ResponseAlone(c)
    /\ \A c, k \in Conns :
          (c # k /\ TmpExists(c) /\ TmpExists(k)) => tmp[c].name # tmp[k].name

(***************************************************************************)
(* C18: a failure of listener.Accept() leaves the process running and the  *)
(* listener accepting, with no handler started; after any number of such   *)
(* failures the next connection can still be accepted, and every accepted  *)
(* connection has exactly one handler.  The listener ends the process only *)
(* when vsock.Listen fails at startup, before any connection.              *)
(***************************************************************************)
\* the connection listener.Accept() returns next
NextConn == {c \in Conns : Active(c) /\ pc[c] = "new" /\ \A k \in Conns : k < c => pc[k] # "new"}

C18_ListenerState ==
    /\ listener.st \in {"start", "accepting", "fatal"}
    /\ listener.fails > 0 => listener.st = "accepting"
    /\ listener.st = "fatal" =>
          /\ ~alive /\ listener.fails = 0
          /\ \A c \in Conns : pc[c] = "new" /\ spawned[c].n = 0
    /\ (alive /\ listener.st = "accepting") => \A c \in NextConn : ENABLED Accept(c)
    /\ \A c \in Conns : spawned[c].n = (IF pc[c] = "new" THEN 0 ELSE 1)
    /\ ~alive => (listener.st = "fatal" \/ \E c \in Conns : pc[c] = "panicked")

C18_Step ==
    /\ listener'.fails > listener.fails =>
          /\ alive' /\ listener'.st = "accepting"
          /\ pc' = pc /\ spawned' = spawned /\ closed' = closed
    /\ (listener' # listener /\ ~alive') =>
          (listener.st = "start" /\ listener'.st = "fatal")

Received == cli.pc = "exited" /\ cli.rcv = "full"

C19_ClientReportsError ==
    /\ (Received /\ ~sent[ClientConn][1].text.success) =>
          /\ cli.exit # 0
          /\ cli.log = << "Enclave returned error" >> \o sent[ClientConn][1].text.error_message
          /\ cli.stdout = << >>
          /\ ~cli.file.exists
    /\ cli.file.exists =>
          /\ Received /\ sent[ClientConn][1].text.success
          /\ cli.output # << >> /\ cli.exit = 0

C19_Witness ==
    /\ Received /\ ~sent[ClientConn][1].text.success
    /\ cli.output # << >> /\ cli.exit = 1
    /\ "get attestation document failed" \in Range(cli.log)

(***************************************************************************)
(* C20: when the helper ran and exited with status 0, the document of the  *)
(* success response is the value of the member attestation_doc of the      *)
(* helper's JSON output, and output that does not parse gives an error     *)
(* response.                                                               *)
(***************************************************************************)
\* the call of handler c ran the helper, which exited with status 0
HelperSucceeded(c) == CallReturned(c) /\ acq[c].ran /\ env[c].h.exit0

\* the document is the member attestation_doc; unparseable output is an error
FieldIsDocument(c) ==
    LET u == UnmarshalHelper(env[c].h.out)
    IN  IF u.err = << >>
        THEN /\ acq[c].err = << >> /\ acq[c].doc = u.doc
             /\ Returned(c) =>
                   /\ Len(sent[c]) = 1 /\ sent[c][1].text.success
                   /\ sent[c][1].text.document = u.doc
        ELSE /\ acq[c].err # << >> /\ acq[c].doc = << >>
             /\ Returned(c) /\ Len(sent[c]) = 1
             /\ IsErrorText(sent[c][1].text, "parse nsm-cli output failed")

\* the document is the whole output of the helper, whatever it is
OutputIsDocument(c) ==
    /\ acq[c].err = << >> /\ acq[c].doc = env[c].h.out.raw
    /\ Returned(c) =>
          /\ Len(sent[c]) = 1 /\ sent[c][1].text.success
          /\ sent[c][1].text.document = env[c].h.out.raw

\* the claim as stated: in both handlers
C20_DocumentIsField == \A c \in Conns : HelperSucceeded(c) => FieldIsDocument(c)

\* amended: in the handler of src/enclave/main.go; the handler of
\* src/unnamed/part_001 answers with the raw output and never parses it
C20_DocumentIsFieldLegacy ==
    \A c \in Conns :
        HelperSucceeded(c) =>
            IF srv = "legacy" THEN FieldIsDocument(c) ELSE OutputIsDocument(c)

C20_Witness ==
    \E c \in Conns :
        /\ srv = "legacy" /\ HelperSucceeded(c) /\ Returned(c)
        /\ sent[c][1].ok /\ sent[c][1].text.success
        /\ sent[c][1].text.document = DocHi /\ env[c].h.out.raw # DocHi

(***************************************************************************)
(* C21: after a successful save the file holds the base64 decoding of the  *)
(* document of the response, and not the base64 text: on the server, the   *)
(* file named by output_file; on the client, the file named by output.     *)
(***************************************************************************)
\* the document the client took from the response it read
ClientDocument == UnmarshalResponse(sent[ClientConn][1].text).Document

\* the client's saveAttestationDoc returned without an error
ClientSaved ==
    /\ cli.pc = "exited" /\ cli.rcv = "full" /\ cli.exit = 0
    /\ cli.output # << >> /\ cli.log = << >>

\* the file holds the decoding of the document
HoldsDecoding(file, document) ==
    /\ DecodeString(document).ok
    /\ file = [exists |-> TRUE, bytes |-> DecodeString(document).bytes]
    /\ document # << >> => file.bytes # document

\* a step in which the server's saveAttestationDoc returns without an error
C21_ServerStep ==
    \A c \in Conns :
        (saved'[c].called /\ ~saved[c].called /\ saved'[c].err = << >>) =>
            /\ HoldsDecoding(files'[args[c].OutputFile], acq[c].doc)
            /\ acq[c].opened =>
                  files'[args[c].OutputFile].bytes
                      = DataPrefix(env[c].d, FrameDocLen(env[c].d))

\* the claim as stated: on the server and in every client
C21_RoundTrip ==
    /\ [](ClientSaved => HoldsDecoding(cli.file, ClientDocument))
    /\ [][C21_ServerStep]_vars

\* amended: the client of src/host/client.go saves a document that is not base64
\* as it is
C21_ClientFile ==
    ClientSaved =>
        IF srv = "legacy" \/ DecodeString(ClientDocument).ok
        THEN HoldsDecoding(cli.file, ClientDocument)
        ELSE cli.file = [exists |-> TRUE, bytes |-> ClientDocument]

C21_RoundTripByRevision == []C21_ClientFile /\ [][C21_ServerStep]_vars

C21_Witness ==
    /\ srv = "legacy" /\ ClientSaved /\ cli.file.bytes = << 104, 105 >>
    /\ saved[ClientConn].called /\ saved[ClientConn].err = << >>
    /\ files[args[ClientConn].OutputFile].bytes = << 104, 105 >>

(***************************************************************************)
(* C22: a helper or device call that never returns holds up its own        *)
(* handler only.  While a call is pending the listener accepts; and a      *)
(* connection whose own blocking calls (conn.Read, helper, device) return  *)
(* reaches ResponseSent or ErrorSent and is closed, whatever the calls of  *)
(* the other handlers do, as long as the process runs.                     *)
(***************************************************************************)
\* handler c is inside a helper or device call
Pending(c) == pc[c] \in {"helper", "devwrite", "devread"}

C22_ListenerAccepts ==
    (alive /\ \E c \in Conns : Pending(c)) =>
        /\ listener.st = "accepting"
        /\ \A k \in NextConn : ENABLED Accept(k)

C22_HangIsLocal ==
    /\ []C22_ListenerAccepts
    /\ \A c \in Conns :
          WF_vars(Returns(c)) =>
              (pc[c] = "read" ~> ((Terminal(c) /\ closed[c]) \/ ~alive))

C22_Witness ==
    \E c, k \in Conns :
        /\ c # k /\ Pending(c) /\ alive
        /\ Terminal(k) /\ closed[k] /\ Len(sent[k]) = 1 /\ calls[k] = 1

(***************************************************************************)
(* C23: a call of getSignedAttestationDocDirect that opened the device     *)
(* calls nsmDevice.Write once, with the whole request frame, and then      *)
(* reads the response; it never writes or reads again.  As stated the      *)
(* response frame is read by one read, header and body together.  The code *)
(* reads it by two binary.Read calls, the header (8 bytes) and then the    *)
(* body, and by one call only when the header could not be read.           *)
(***************************************************************************)
\* the device call of handler c is over
DeviceCallOver(c) == CallReturned(c) /\ acq[c].opened

\* the claim as stated: one write and one read for a frame read in full
C23_OneWriteOneRead ==
    \A c \in Conns :
        /\ io[c].writes <= 1 /\ io[c].reads <= 1
        /\ (DeviceCallOver(c) /\ FrameRead(c)) => io[c] = [writes |-> 1, reads |-> 1]

\* amended: one write, then the header read and, when the header was read, the
\* body read
C23_OneWriteTwoReads ==
    \A c \in Conns :
        /\ io[c].writes <= 1 /\ io[c].reads <= 2
        /\ io[c].reads > 0 => io[c].writes = 1
        /\ pc[c] = "devwrite" => io[c] = NoIO
        /\ pc[c] = "devread" => io[c] = [writes |-> 1, reads |-> 0]
        /\ (calls[c] = 0 \/ (CallReturned(c) /\ ~acq[c].opened)) => io[c] = NoIO
        /\ DeviceCallOver(c) =>
              /\ io[c].writes = 1
              /\ acq[c].wrote = << >> =>
                    io[c].reads = 0 /\ "send request failed" \in Range(acq[c].err)
              /\ acq[c].wrote # << >> =>
                    /\ acq[c].wrote = RequestFrame(args[c].Nonce)
                    /\ Len(acq[c].wrote) = 2 * U32Size + SizeofRequest
                    /\ io[c].reads =
                          IF "read response header failed" \in Range(acq[c].err)
                          THEN 1 ELSE 2
              /\ FrameRead(c) => io[c].reads = 2

C23_Witness ==
    \E c \in Conns :
        /\ DeviceCallOver(c) /\ FrameRead(c) /\ Succeeded(c)
        /\ io[c] = [writes |-> 1, reads |-> 2]

(***************************************************************************)
(* C24: the handler reads the request by one conn.Read into a buffer of    *)
(* 4096 bytes.  Of a serialized request object longer than that it holds   *)
(* the first 4096 bytes at most; these do not deserialize, so the handler  *)
(* never calls the acquirer for such a request and ends in ErrorSent with  *)
(* one response that reports the parse failure.                            *)
(***************************************************************************)
\* handler c has read from a request object that does not fit its buffer
Truncated(c) ==
    /\ buf[c].n > 0
    /\ buf[c].text.j = "object" /\ buf[c].text.size > ReadBufSize

C24_Rejected ==
    \A c \in Conns :
        /\ buf[c].n <= ReadBufSize /\ buf[c].n <= buf[c].text.size
        /\ Truncated(c) =>
              /\ ~Deserialized(c)
              /\ calls[c] = 0 /\ args[c] = ZeroArgs /\ acq[c] = NoAcq /\ io[c] = NoIO
              /\ tmp[c].st = "none" /\ ~saved[c].called
              /\ Phase(c) \in {"AwaitingRequest", "RequestParsed", "ErrorSent"}
              /\ pc[c] \in {"parse", "done"}
              /\ Returned(c) =>
                    /\ Phase(c) = "ErrorSent" /\ Len(sent[c]) = 1 /\ closed[c]
                    /\ IsErrorText(sent[c][1].text, "parse arguments failed")

\* the buffer is filled by the one read and by nothing else
C24_OneRead(c) == buf'[c] # buf[c] => (pc[c] = "read" /\ pc'[c] = "parse" /\ buf[c] = NoBuf)

C24_TruncatedRequestRejected ==
    /\ []C24_Rejected
    /\ [][\A c \in Conns : C24_OneRead(c)]_vars

C24_Witness ==
    \E c \in Conns :
        /\ Truncated(c) /\ buf[c].n = ReadBufSize /\ Returned(c) /\ alive
        /\ Len(sent[c]) = 1 /\ sent[c][1].ok
        /\ IsErrorText(sent[c][1].text, "parse arguments failed")

(***************************************************************************)
(* C25: a nonce longer than 64 bytes does not make the device call fail:   *)
(* the frame written holds the first 64 bytes of the nonce in its nonce    *)
(* field and the same messageLen (68) as for any nonce, and the call       *)
(* returns what it returns for these 64 bytes alone; two nonces of 64      *)
(* bytes or more that agree on their first 64 bytes give the same frame.   *)
(***************************************************************************)
Prefix64(nonceStr) == SubSeq(nonceStr, 1, Min(Len(nonceStr), NonceSize))

\* handler c wrote a frame for a nonce that does not fit the nonce field
LongNonceWritten(c) ==
    /\ srv = "legacy" /\ DeviceCallOver(c)
    /\ acq[c].wrote # << >> /\ Len(args[c].Nonce) > NonceSize

C25_NonceTruncated ==
    /\ \A c \in Conns :
          LongNonceWritten(c) =>
              /\ Len(acq[c].wrote) = 3 * U32Size + NonceSize
              /\ SubSeq(acq[c].wrote, U32Size + 1, 2 * U32Size) = << 68, 0, 0, 0 >>
              /\ SubSeq(acq[c].wrote, 3 * U32Size + 1, 3 * U32Size + NonceSize)
                    = SubSeq(args[c].Nonce, 1, NonceSize)
              /\ acq[c] = getSignedAttestationDocDirect(Prefix64(args[c].Nonce), env[c].d)
              /\ acq[c].err = getSignedAttestationDocDirect(<< >>, env[c].d).err
    /\ \A n1, n2 \in Nonces(scope) :
          (Len(n1) >= NonceSize /\ Len(n2) >= NonceSize /\ Prefix64(n1) = Prefix64(n2))
              => RequestFrame(n1) = RequestFrame(n2)
    /\ \A n \in Nonces(scope) :
          SubSeq(RequestFrame(n), U32Size + 1, 2 * U32Size) = << 68, 0, 0, 0 >>

C25_Witness ==
    \E c \in Conns :
        /\ LongNonceWritten(c) /\ Succeeded(c)
        /\ args[c].Nonce[NonceSize + 1] = 99
        /\ acq[c].wrote = RequestFrame(Rep(98, NonceSize))
        /\ \E n \in Nonces(scope) \ {args[c].Nonce} :
              Len(n) > NonceSize /\ Prefix64(n) = Prefix64(args[c].Nonce)

====
